---- MODULE Spec2Model ----
(***************************************************************************)
(* Model of benchmark_rio_s3/parallel.py: split_it (the bounded relay:     *)
(* one queue.Queue, a run state with an abort flag, n consumer generators  *)
(* q2it and the producer run_src_pump) and ParallelStreamProc (a fixed     *)
(* list of single-thread executors, _run, abort, bind, broadcast).         *)
(*                                                                         *)
(* Threads of the model: the threads that call a bound callable (Callers)  *)
(* and one thread per worker slot.  A step of the model is one statement   *)
(* of the source between two points where another thread can observe or    *)
(* change shared state (self._state, state.abort, the queue, the executor  *)
(* work queues).                                                           *)
(***************************************************************************)
EXTENDS Integers, Sequences, FiniteSets, TLC

\* ---------------------------------------------------------------- bounds
\* Largest pool size, source length and queue capacity of the one-caller model;
\* MaxItems is the largest source length of the model of a pool of two slots too.
MaxThreads == 2
MaxItems == 2
MaxQ == 2
\* Largest source length of the model with fair scheduling.
LiveItems == 1
\* Largest source length of the model with two calling threads.
RaceItems == 1
\* Largest source length of the model of a source or callback that raises.
RaiseItems == 1
\* Largest source length of the model of broadcasts between jobs.
BcastItems == 1

\* ------------------------------------------------------ program constants
\* parallel.py:98  qmaxsize = 100 when the bound callable gives none
DefaultQMaxSize == 100

\* parallel.py:94  elif max_workers < 1: the smallest worker count a job may ask for
MinWorkers == 1

\* parallel.py:8  EOS_MARKER = object(); source items are 1..M, never 0
EOS_MARKER == 0

None == "None"

\* The threads that invoke a bound callable of the one pool: the main thread
\* (the documented use, parallel.py:74-76) and one other thread.
Callers == {"main", "other"}

\* Worker slots self._workers[0 .. nthreads-1], numbered from 1 here.
Slots == 1..MaxThreads

VARIABLES
    nthreads,      \* self._nthreads, fixed at construction
    qmaxsize,      \* bind(qmaxsize=...): <<>> is None, <<k>> is k
    self_state,    \* self._state: None or the caller whose run state it is
    pc,            \* pc[c]: where caller c is in _run / run_src_pump
    max_workers,   \* max_workers[c]: requested value, <<>> is None
    srclen,        \* srclen[c]: length M of the source stream of c's job
    bad,           \* bad[c]: the item stream_proc raises on (0: none)
    src_raises,    \* src_raises[c]: the item the source raises at instead of
                   \* giving it (0: none)
    on_blocked_raises,  \* on_blocked_raises[c]: the on_blocked callback raises
    abort,         \* abort[c]: state.abort of c's run state
    queue,         \* queue[c]: entries of the run state's queue.Queue
    unfinished,    \* unfinished[c]: the queue's unfinished_tasks counter
    sent,          \* sent[c]: entries of the chained source already put
    cpc,           \* cpc[c][i]: where consumer i of c's job is in q2it
    out,           \* out[c][i]: items q2it i has yielded to stream_proc
    workq,         \* workq[i]: FIFO of tasks of executor i (head is running)
    result,        \* result[c]: how c's last invocation ended
    raced,         \* history: some check ran inside another's check-install window
    lastAborted,   \* history: the job that returned last had abort set
    bfut,          \* bfut[i]: the future of the broadcast task of executor i
    ncalls,        \* history: ncalls[i] calls of proc by the broadcast on slot i
    returned,      \* the list the main thread's last broadcast returned
    proc_raises    \* the slots on which the broadcast's proc raises

vars == <<nthreads, qmaxsize, self_state, pc, max_workers, srclen, bad,
          src_raises, on_blocked_raises, abort, queue, unfinished, sent, cpc,
          out, workq, result, raced, lastAborted, bfut, ncalls, returned,
          proc_raises>>

bvars == <<bfut, ncalls, returned, proc_raises>>

faults == <<src_raises, on_blocked_raises>>

jobvars == <<abort, queue, unfinished, sent, cpc, out>>

\* ------------------------------------------------------------- helpers

\* parallel.py:90-91  max_workers None resolves to the pool size
Resolved(c) == IF max_workers[c] = <<>> THEN nthreads ELSE max_workers[c][1]

\* The lower bound of the worker count left unchecked (mutation of ValidWorkers)
ValidWorkers_lax(mw) == IF mw = <<>> THEN TRUE ELSE ~(mw[1] > nthreads)

\* parallel.py:90-95  the elif chain: only a given value is range checked
ValidWorkers(mw) ==
    IF mw = <<>> THEN TRUE ELSE ~(mw[1] > nthreads) /\ ~(mw[1] < MinWorkers)

\* parallel.py:97-98
QMax == IF qmaxsize = <<>> THEN DefaultQMaxSize ELSE qmaxsize[1]

\* A queue that counts as full only once it holds more than its capacity
\* (mutation of Full)
Full_late(c) == QMax > 0 /\ Len(queue[c]) > QMax

\* queue.Queue.full(): maxsize <= 0 is an unbounded queue
Full(c) == QMax > 0 /\ Len(queue[c]) >= QMax

\* The markers chained in front of the source (mutation of Chain)
Chain_markers_first(c, k) ==
    IF k <= Resolved(c) THEN EOS_MARKER ELSE k - Resolved(c)

\* The source read from its end (mutation of Chain)
Chain_reversed(c, k) == IF k <= srclen[c] THEN srclen[c] + 1 - k ELSE EOS_MARKER

\* parallel.py:38  itertools.chain(src, itertools.repeat(EOS_MARKER, n)), entry k
Chain(c, k) == IF k <= srclen[c] THEN k ELSE EOS_MARKER

\* One end-of-stream marker too few (mutation of ChainLen)
ChainLen_short(c) == srclen[c] + Resolved(c) - 1

\* parallel.py:38  length of the chained stream
ChainLen(c) == srclen[c] + Resolved(c)

\* parallel.py:39  the for loop asks the chained stream for entry k + 1: the
\* source raises, or there is another entry to submit, or the loop falls
\* through to q.join()
AfterPut(c, k) ==
    IF k + 1 = src_raises[c] THEN "raise"
    ELSE IF k < ChainLen(c) THEN "retry" ELSE "join"

\* A consumer generator that has returned or whose task has raised.
Settled == {"eos", "aborted", "raised"}

\* The generator has returned and stream_proc has not yet returned from its loop.
Returning == {"eos", "aborted"}

\* Callers whose run state exists and whose job has not yet been cleared.
ActivePC == {"submit", "retry", "put", "blocked", "join", "wait", "clear"}

\* The items of a source whose value compares equal (==) to any object, the
\* marker included, without being the marker: the first item of every source.
EqualsAny == {1}

\* The marker recognised by comparing values (mutation of IsEOS)
IsEOS_equal(x) == x = EOS_MARKER \/ x \in EqualsAny

\* parallel.py:17  item is EOS_MARKER: the entry is the marker object itself
IsEOS(x) == x = EOS_MARKER

\* queue.Queue.get peeking instead of removing the head (mutation of QueueGet)
QueueGet_peek(q) == q

\* parallel.py:15  queue.Queue.get: the queue after its oldest entry is removed
QueueGet(q) == Tail(q)

\* A queue that puts a new entry in front of the waiting ones (last in, first
\* out), which queue.Queue is not.
QueuePut_front(q, x) == <<x>> \o q

\* parallel.py:30  queue.Queue.put: the entry joins the queue at the tail
QueuePut(q, x) == Append(q, x)

\* parallel.py:45-49  the queue a new run state starts with
split_it_queue(c) == <<>>

\* A run state that keeps the abort flag of the job before (mutation of split_it_abort)
split_it_abort_stale(c) == lastAborted

\* parallel.py:47  the abort flag a new run state starts with
split_it_abort(c) == FALSE

\* ---------------------------------------------------------------- Init
Init ==
    /\ nthreads \in 0..MaxThreads
    /\ qmaxsize \in {<<>>} \cup {<<k>> : k \in 1..MaxQ}
    /\ self_state = None
    /\ pc = [c \in Callers |-> "idle"]
    /\ max_workers = [c \in Callers |-> <<>>]
    /\ srclen = [c \in Callers |-> 0]
    /\ bad = [c \in Callers |-> 0]
    /\ src_raises = [c \in Callers |-> 0]
    /\ on_blocked_raises = [c \in Callers |-> FALSE]
    /\ abort = [c \in Callers |-> FALSE]
    /\ queue = [c \in Callers |-> <<>>]
    /\ unfinished = [c \in Callers |-> 0]
    /\ sent = [c \in Callers |-> 0]
    /\ cpc = [c \in Callers |-> [i \in Slots |-> "none"]]
    /\ out = [c \in Callers |-> [i \in Slots |-> <<>>]]
    /\ workq = [i \in Slots |-> <<>>]
    /\ result = [c \in Callers |-> "none"]
    /\ raced = FALSE
    /\ lastAborted = FALSE
    /\ bfut = [i \in Slots |-> "none"]
    /\ ncalls = [i \in Slots |-> 0]
    /\ returned = <<>>
    /\ proc_raises = {}

\* ------------------------------------------------- the calling thread
\* parallel.py:84-95  a bound callable is invoked; the worker count is
\* validated.  The call: max_workers mw, a source of m items, a stream_proc
\* that raises on item b, a source that raises at item k, an on_blocked
\* callback that raises or not (cb).
Invoke(c, mw, m, b, k, cb) ==
    /\ pc[c] = "idle"
    /\ self_state # c
    /\ max_workers' = [max_workers EXCEPT ![c] = mw]
    /\ IF ValidWorkers(mw)
       THEN /\ pc' = [pc EXCEPT ![c] = "chk"]
            /\ srclen' = [srclen EXCEPT ![c] = m]
            /\ bad' = [bad EXCEPT ![c] = b]
            /\ src_raises' = [src_raises EXCEPT ![c] = k]
            /\ on_blocked_raises' = [on_blocked_raises EXCEPT ![c] = cb]
            /\ result' = [result EXCEPT ![c] = "running"]
       ELSE /\ result' = [result EXCEPT ![c] = "ValueError_workers"]
            /\ UNCHANGED <<pc, srclen, bad, faults>>
    /\ returned' = <<>>
    /\ UNCHANGED <<nthreads, qmaxsize, bfut, ncalls, proc_raises, self_state,
                   jobvars, workq, raced, lastAborted>>

\* parallel.py:84-104  a bound callable is invoked by the thread whose earlier
\* call left its run state installed: nothing clears self._state while this
\* call runs, so it ends in one of the two errors and its arguments never
\* reach split_it; the tasks of the earlier call go on with theirs.
InvokeStale(c, mw) ==
    /\ pc[c] = "idle"
    /\ self_state = c
    /\ result' = [result EXCEPT ![c] =
          IF ValidWorkers(mw) THEN "ValueError_concurrent"
                              ELSE "ValueError_workers"]
    /\ UNCHANGED <<nthreads, qmaxsize, faults, bvars, self_state, pc, max_workers,
                   srclen, bad, jobvars, workq, raced, lastAborted>>

\* _run without the test of self._state (mutation of Check)
Check_unguarded(c) ==
    /\ pc[c] = "chk"
    /\ pc' = [pc EXCEPT ![c] = "install"]
    /\ raced' = (raced \/ \E d \in Callers \ {c} : pc[d] = "install")
    /\ UNCHANGED <<nthreads, qmaxsize, faults, bvars, self_state, max_workers, srclen, bad,
                   jobvars, workq, result, lastAborted>>

\* _run clearing self._state on its way out of the error too (mutation of Check)
Check_finally(c) ==
    /\ pc[c] = "chk"
    /\ IF self_state # None
       THEN /\ pc' = [pc EXCEPT ![c] = "idle"]
            /\ result' = [result EXCEPT ![c] = "ValueError_concurrent"]
            /\ self_state' = None
            /\ UNCHANGED raced
       ELSE /\ pc' = [pc EXCEPT ![c] = "install"]
            /\ raced' = (raced \/ \E d \in Callers \ {c} : pc[d] = "install")
            /\ UNCHANGED <<result, self_state>>
    /\ UNCHANGED <<nthreads, qmaxsize, faults, bvars, max_workers, srclen, bad,
                   jobvars, workq, lastAborted>>

\* parallel.py:103-104  if self._state is not None: raise ValueError
Check(c) ==
    /\ pc[c] = "chk"
    /\ IF self_state # None
       THEN /\ pc' = [pc EXCEPT ![c] = "idle"]
            /\ result' = [result EXCEPT ![c] = "ValueError_concurrent"]
            /\ UNCHANGED raced
       ELSE /\ pc' = [pc EXCEPT ![c] = "install"]
            /\ raced' = (raced \/ \E d \in Callers \ {c} : pc[d] = "install")
            /\ UNCHANGED result
    /\ UNCHANGED <<nthreads, qmaxsize, faults, bvars, self_state, max_workers, srclen, bad,
                   jobvars, workq, lastAborted>>

\* parallel.py:106-107  state, its = split_it(...); self._state = state
Install(c) ==
    /\ pc[c] = "install"
    /\ abort' = [abort EXCEPT ![c] = split_it_abort(c)]
    /\ queue' = [queue EXCEPT ![c] = split_it_queue(c)]
    /\ unfinished' = [unfinished EXCEPT ![c] = 0]
    /\ sent' = [sent EXCEPT ![c] = 0]
    /\ cpc' = [cpc EXCEPT ![c] = [i \in Slots |-> IF i <= Resolved(c) THEN "check" ELSE "none"]]
    /\ out' = [out EXCEPT ![c] = [i \in Slots |-> <<>>]]
    /\ self_state' = c
    /\ pc' = [pc EXCEPT ![c] = "submit"]
    /\ UNCHANGED <<nthreads, qmaxsize, faults, bvars, max_workers, srclen, bad, workq, result,
                   raced, lastAborted>>

\* A job that hands a task to every slot of the pool, whatever its worker
\* count (mutation of Submit)
Submit_all(c) ==
    /\ pc[c] = "submit"
    /\ workq' = [i \in Slots |-> IF i <= nthreads THEN Append(workq[i], c) ELSE workq[i]]
    /\ pc' = [pc EXCEPT ![c] = AfterPut(c, 0)]
    /\ UNCHANGED <<nthreads, qmaxsize, faults, bvars, self_state, max_workers, srclen, bad,
                   jobvars, result, raced, lastAborted>>

\* parallel.py:109-112, 38-39  one task per worker of self._workers[:max_workers];
\* then state.run starts and pulls the first entry of the chained stream
Submit(c) ==
    /\ pc[c] = "submit"
    /\ workq' = [i \in Slots |-> IF i <= Resolved(c) THEN Append(workq[i], c) ELSE workq[i]]
    /\ pc' = [pc EXCEPT ![c] = AfterPut(c, 0)]
    /\ UNCHANGED <<nthreads, qmaxsize, faults, bvars, self_state, max_workers, srclen, bad,
                   jobvars, result, raced, lastAborted>>

\* A producer whose loop does not test the abort flag (mutation of Retry)
Retry_ignore(c) ==
    /\ pc[c] = "retry"
    /\ pc' = [pc EXCEPT ![c] = "put"]
    /\ UNCHANGED <<nthreads, qmaxsize, faults, bvars, self_state, max_workers, srclen, bad,
                   jobvars, workq, result, raced, lastAborted>>

\* parallel.py:28, 35, 40-41  while state.abort is False; aborted: run returns
Retry(c) ==
    /\ pc[c] = "retry"
    /\ pc' = [pc EXCEPT ![c] = IF abort[c] THEN "wait" ELSE "put"]
    /\ UNCHANGED <<nthreads, qmaxsize, faults, bvars, self_state, max_workers, srclen, bad,
                   jobvars, workq, result, raced, lastAborted>>

\* parallel.py:30-32, 39  q.put(item, block=True, timeout=sleep)
Put(c) ==
    /\ pc[c] = "put"
    /\ IF Full(c)
       THEN /\ pc' = [pc EXCEPT ![c] = "blocked"]
            /\ UNCHANGED <<queue, unfinished, sent>>
       ELSE /\ queue' = [queue EXCEPT ![c] = QueuePut(@, Chain(c, sent[c] + 1))]
            /\ unfinished' = [unfinished EXCEPT ![c] = @ + 1]
            /\ sent' = [sent EXCEPT ![c] = @ + 1]
            /\ pc' = [pc EXCEPT ![c] = AfterPut(c, sent[c] + 1)]
    /\ UNCHANGED <<nthreads, qmaxsize, faults, bvars, self_state, max_workers, srclen, bad,
                   abort, cpc, out, workq, result, raced, lastAborted>>

\* A producer that gives up the entry it could not enqueue and goes on with
\* the next one (mutation of Blocked)
Blocked_skip(c) ==
    /\ pc[c] = "blocked"
    /\ sent' = [sent EXCEPT ![c] = @ + 1]
    /\ pc' = [pc EXCEPT ![c] = AfterPut(c, sent[c] + 1)]
    /\ UNCHANGED <<nthreads, qmaxsize, faults, bvars, self_state, max_workers, srclen, bad,
                   abort, queue, unfinished, cpc, out, workq, result, raced, lastAborted>>

\* parallel.py:32-34  except queue.Full: on_blocked(state), which returns or raises
Blocked(c) ==
    /\ pc[c] = "blocked"
    /\ pc' = [pc EXCEPT ![c] = IF on_blocked_raises[c] THEN "raise" ELSE "retry"]
    /\ UNCHANGED <<nthreads, qmaxsize, faults, bvars, self_state, max_workers, srclen, bad,
                   jobvars, workq, result, raced, lastAborted>>

\* run returning after its loop without q.join() (mutation of Join)
Join_nowait(c) ==
    /\ pc[c] = "join"
    /\ pc' = [pc EXCEPT ![c] = "wait"]
    /\ UNCHANGED <<nthreads, qmaxsize, faults, bvars, self_state, max_workers, srclen, bad,
                   jobvars, workq, result, raced, lastAborted>>

\* parallel.py:43  q.join(): returns when unfinished_tasks is zero
Join(c) ==
    /\ pc[c] = "join"
    /\ unfinished[c] = 0
    /\ pc' = [pc EXCEPT ![c] = "wait"]
    /\ UNCHANGED <<nthreads, qmaxsize, faults, bvars, self_state, max_workers, srclen, bad,
                   jobvars, workq, result, raced, lastAborted>>

\* The future of the task c submitted to executor i is done: the task has
\* returned or raised and has left the executor.
TaskDone(c, i) ==
    /\ cpc[c][i] \in Settled
    /\ \A j \in 1..Len(workq[i]) : workq[i][j] # c

\* _run going on without fut.wait (mutation of Wait)
Wait_nowait(c) ==
    /\ pc[c] = "wait"
    /\ pc' = [pc EXCEPT ![c] = "clear"]
    /\ UNCHANGED <<nthreads, qmaxsize, faults, bvars, self_state, max_workers, srclen, bad,
                   jobvars, workq, result, raced, lastAborted>>

\* parallel.py:114-115  fut.wait(futures): every future of the job is done
Wait(c) ==
    /\ pc[c] = "wait"
    /\ \A i \in 1..Resolved(c) : TaskDone(c, i)
    /\ pc' = [pc EXCEPT ![c] = "clear"]
    /\ UNCHANGED <<nthreads, qmaxsize, faults, bvars, self_state, max_workers, srclen, bad,
                   jobvars, workq, result, raced, lastAborted>>

\* parallel.py:39, 34, 112  the exception of the source or of on_blocked leaves
\* run_src_pump, state.run and _run: no handler, nothing after line 112 runs.
\* The tasks submitted at 109-110 and the run state stay as they are.
Raise(c) ==
    /\ pc[c] = "raise"
    /\ pc' = [pc EXCEPT ![c] = "idle"]
    /\ result' = [result EXCEPT ![c] = "Error_producer"]
    /\ UNCHANGED <<nthreads, qmaxsize, faults, bvars, self_state, max_workers, srclen,
                   bad, jobvars, workq, raced, lastAborted>>

\* parallel.py:117  self._state = None; _run returns None.  The run state, its
\* queue, the generators and the call's arguments are unreachable from here on
\* and are dropped.
Clear(c) ==
    /\ pc[c] = "clear"
    /\ self_state' = None
    /\ pc' = [pc EXCEPT ![c] = "idle"]
    /\ result' = [result EXCEPT ![c] = "ok"]
    /\ lastAborted' = abort[c]
    /\ max_workers' = [max_workers EXCEPT ![c] = <<>>]
    /\ srclen' = [srclen EXCEPT ![c] = 0]
    /\ bad' = [bad EXCEPT ![c] = 0]
    /\ src_raises' = [src_raises EXCEPT ![c] = 0]
    /\ on_blocked_raises' = [on_blocked_raises EXCEPT ![c] = FALSE]
    /\ abort' = [abort EXCEPT ![c] = FALSE]
    /\ queue' = [queue EXCEPT ![c] = <<>>]
    /\ unfinished' = [unfinished EXCEPT ![c] = 0]
    /\ sent' = [sent EXCEPT ![c] = 0]
    /\ cpc' = [cpc EXCEPT ![c] = [i \in Slots |-> "none"]]
    /\ out' = [out EXCEPT ![c] = [i \in Slots |-> <<>>]]
    /\ UNCHANGED <<nthreads, qmaxsize, bvars, workq, raced>>

\* ------------------------------------------------- the worker threads
\* An executor that runs the task submitted last (mutation of Running)
Running_newest(i) == workq[i][Len(workq[i])]

\* The task executor i runs: the oldest one submitted to it and not finished.
Running(i) == Head(workq[i])

\* parallel.py:13  while state.abort is False (else the generator returns
\* and stream_proc's loop ends)
CCheck(i) ==
    /\ workq[i] # <<>>
    /\ Running(i) \in Callers
    /\ LET c == Running(i) IN
        /\ cpc[c][i] = "check"
        /\ IF abort[c]
           THEN cpc' = [cpc EXCEPT ![c][i] = "aborted"]
           ELSE cpc' = [cpc EXCEPT ![c][i] = "get"]
    /\ UNCHANGED <<nthreads, qmaxsize, faults, bvars, self_state, pc, max_workers, srclen, bad,
                   abort, queue, unfinished, sent, out, workq, result, raced,
                   lastAborted>>

\* Items assigned statically: every item belongs to the first consumer, and
\* another consumer that finds an item at the head of the queue leaves it there
\* (mutation of CGet)
CGet_static(i) ==
    /\ workq[i] # <<>>
    /\ Running(i) \in Callers
    /\ LET c == Running(i) IN
        /\ cpc[c][i] = "get"
        /\ IF queue[c] = <<>> \/ (i # 1 /\ ~IsEOS(Head(queue[c])))
           THEN /\ cpc' = [cpc EXCEPT ![c][i] = "check"]
                /\ UNCHANGED <<queue, unfinished, out>>
           ELSE /\ queue' = [queue EXCEPT ![c] = QueueGet(@)]
                /\ IF IsEOS(Head(queue[c]))
                   THEN /\ unfinished' = [unfinished EXCEPT ![c] = @ - 1]
                        /\ cpc' = [cpc EXCEPT ![c][i] = "eos"]
                        /\ UNCHANGED out
                   ELSE /\ out' = [out EXCEPT ![c][i] = Append(@, Head(queue[c]))]
                        /\ cpc' = [cpc EXCEPT ![c][i] = "proc"]
                        /\ UNCHANGED unfinished
    /\ UNCHANGED <<nthreads, qmaxsize, faults, bvars, self_state, pc, max_workers, srclen, bad,
                   abort, sent, workq, result, raced, lastAborted>>

\* parallel.py:15-24  q.get(block=True, timeout=timeout): an entry, or queue.Empty
CGet(i) ==
    /\ workq[i] # <<>>
    /\ Running(i) \in Callers
    /\ LET c == Running(i) IN
        /\ cpc[c][i] = "get"
        /\ IF queue[c] = <<>>
           THEN /\ cpc' = [cpc EXCEPT ![c][i] = "check"]
                /\ UNCHANGED <<queue, unfinished, out>>
           ELSE /\ queue' = [queue EXCEPT ![c] = QueueGet(@)]
                /\ IF IsEOS(Head(queue[c]))
                   THEN /\ unfinished' = [unfinished EXCEPT ![c] = @ - 1]
                        /\ cpc' = [cpc EXCEPT ![c][i] = "eos"]
                        /\ UNCHANGED out
                   ELSE /\ out' = [out EXCEPT ![c][i] = Append(@, Head(queue[c]))]
                        /\ cpc' = [cpc EXCEPT ![c][i] = "proc"]
                        /\ UNCHANGED unfinished
    /\ UNCHANGED <<nthreads, qmaxsize, faults, bvars, self_state, pc, max_workers, srclen, bad,
                   abort, sent, workq, result, raced, lastAborted>>

\* The item stream_proc is handling: the last one its generator yielded.
Current(c, i) == out[c][i][Len(out[c][i])]

\* parallel.py:21-22  stream_proc has handled the item and asks for the next:
\* the generator resumes after the yield and calls q.task_done()
CNext(i) ==
    /\ workq[i] # <<>>
    /\ Running(i) \in Callers
    /\ LET c == Running(i) IN
        /\ cpc[c][i] = "proc"
        /\ Current(c, i) # bad[c]
        /\ unfinished' = [unfinished EXCEPT ![c] = @ - 1]
        /\ cpc' = [cpc EXCEPT ![c][i] = "check"]
    /\ UNCHANGED <<nthreads, qmaxsize, faults, bvars, self_state, pc, max_workers, srclen, bad,
                   abort, queue, sent, out, workq, result, raced, lastAborted>>

\* A failing task handing its item back to the queue (mutation of CRaise)
CRaise_redeliver(i) ==
    /\ workq[i] # <<>>
    /\ Running(i) \in Callers
    /\ LET c == Running(i) IN
        /\ cpc[c][i] = "proc"
        /\ Current(c, i) = bad[c]
        /\ cpc' = [cpc EXCEPT ![c][i] = "raised"]
        /\ queue' = [queue EXCEPT ![c] = <<bad[c]>> \o @]
        /\ workq' = [workq EXCEPT ![i] = Tail(@)]
    /\ UNCHANGED <<nthreads, qmaxsize, faults, bvars, self_state, pc, max_workers, srclen, bad,
                   abort, unfinished, sent, out, result, raced,
                   lastAborted>>

\* A failing task whose item is acknowledged to the queue all the same
\* (mutation of CRaise)
CRaise_ack(i) ==
    /\ workq[i] # <<>>
    /\ Running(i) \in Callers
    /\ LET c == Running(i) IN
        /\ cpc[c][i] = "proc"
        /\ Current(c, i) = bad[c]
        /\ cpc' = [cpc EXCEPT ![c][i] = "raised"]
        /\ unfinished' = [unfinished EXCEPT ![c] = @ - 1]
        /\ workq' = [workq EXCEPT ![i] = Tail(@)]
    /\ UNCHANGED <<nthreads, qmaxsize, faults, bvars, self_state, pc, max_workers, srclen, bad,
                   abort, queue, sent, out, result, raced,
                   lastAborted>>

\* parallel.py:21, 109  stream_proc raises while handling the item: the task
\* ends with the exception stored in its future, the generator is never resumed
CRaise(i) ==
    /\ workq[i] # <<>>
    /\ Running(i) \in Callers
    /\ LET c == Running(i) IN
        /\ cpc[c][i] = "proc"
        /\ Current(c, i) = bad[c]
        /\ cpc' = [cpc EXCEPT ![c][i] = "raised"]
        /\ workq' = [workq EXCEPT ![i] = Tail(@)]
    /\ UNCHANGED <<nthreads, qmaxsize, faults, bvars, self_state, pc, max_workers, srclen, bad,
                   abort, queue, unfinished, sent, out, result, raced,
                   lastAborted>>

\* parallel.py:109  the generator has returned, stream_proc's loop is over:
\* stream_proc returns, the task ends and its future is done
CReturn(i) ==
    /\ workq[i] # <<>>
    /\ Running(i) \in Callers
    /\ LET c == Running(i) IN
        /\ cpc[c][i] \in Returning
        /\ workq' = [workq EXCEPT ![i] = Tail(@)]
    /\ UNCHANGED <<nthreads, qmaxsize, faults, bvars, self_state, pc, max_workers, srclen, bad,
                   abort, queue, unfinished, sent, cpc, out, result, raced,
                   lastAborted>>

\* ------------------------------------------------------- broadcast()
\* The task broadcast submits to an executor.
BTask == "broadcast"

\* A future that is done: its task has returned or raised.
FutDone == {"result", "exception"}

\* What proc returns on slot i: something that tells the slots apart.
ProcResult(i) == i

\* The orders in which a set of n futures can be iterated.
Orders(n) == {p \in [1..n -> 1..n] : \A a, b \in 1..n : a # b => p[a] # p[b]}

\* parallel.py:141, 144  rr.done is a set of futures: its iteration order is
\* not that of the list futures, it is any order
DoneOrders(n) == Orders(n)

\* broadcast submitting to the first worker only (mutation of BroadcastTo)
BroadcastTo_first == 1..(IF nthreads > 0 THEN 1 ELSE 0)

\* parallel.py:139  for worker in self._workers: every slot of the pool
BroadcastTo == 1..nthreads

\* A broadcast that registers itself as the current run state (mutation of
\* Broadcast)
Broadcast_installs(F) ==
    /\ pc["main"] = "idle"
    /\ pc' = [pc EXCEPT !["main"] = "bwait"]
    /\ result' = [result EXCEPT !["main"] = "running"]
    /\ workq' = [i \in Slots |->
                    IF i \in BroadcastTo THEN Append(workq[i], BTask) ELSE workq[i]]
    /\ bfut' = [i \in Slots |-> IF i \in BroadcastTo THEN "pending" ELSE "none"]
    /\ ncalls' = [i \in Slots |-> 0]
    /\ returned' = <<>>
    /\ proc_raises' = F
    /\ self_state' = "main"
    /\ UNCHANGED <<nthreads, qmaxsize, faults, max_workers, srclen,
                   bad, jobvars, raced, lastAborted>>

\* parallel.py:138-139  broadcast(proc) called by the main thread: one task is
\* submitted to every executor; F are the slots on which proc will raise
Broadcast(F) ==
    /\ pc["main"] = "idle"
    /\ pc' = [pc EXCEPT !["main"] = "bwait"]
    /\ result' = [result EXCEPT !["main"] = "running"]
    /\ workq' = [i \in Slots |->
                    IF i \in BroadcastTo THEN Append(workq[i], BTask) ELSE workq[i]]
    /\ bfut' = [i \in Slots |-> IF i \in BroadcastTo THEN "pending" ELSE "none"]
    /\ ncalls' = [i \in Slots |-> 0]
    /\ returned' = <<>>
    /\ proc_raises' = F
    /\ UNCHANGED <<nthreads, qmaxsize, faults, self_state, max_workers, srclen,
                   bad, jobvars, raced, lastAborted>>

\* parallel.py:139  executor i takes the broadcast task and calls proc
BStart(i) ==
    /\ workq[i] # <<>>
    /\ Running(i) = BTask
    /\ bfut[i] = "pending"
    /\ bfut' = [bfut EXCEPT ![i] = "running"]
    /\ ncalls' = [ncalls EXCEPT ![i] = @ + 1]
    /\ UNCHANGED <<nthreads, qmaxsize, faults, returned, proc_raises, self_state,
                   pc, max_workers, srclen, bad, jobvars, workq, result, raced,
                   lastAborted>>

\* parallel.py:139  proc returns or raises on slot i: the future is done
BEnd(i) ==
    /\ workq[i] # <<>>
    /\ Running(i) = BTask
    /\ bfut[i] = "running"
    /\ bfut' = [bfut EXCEPT ![i] = IF i \in proc_raises THEN "exception" ELSE "result"]
    /\ workq' = [workq EXCEPT ![i] = Tail(@)]
    /\ UNCHANGED <<nthreads, qmaxsize, faults, ncalls, returned, proc_raises,
                   self_state, pc, max_workers, srclen, bad, jobvars, result,
                   raced, lastAborted>>

\* A broadcast that stops waiting at the first future that holds an exception
\* (mutation of BReturn)
BReturn_first_exception ==
    /\ pc["main"] = "bwait"
    /\ \/ \A i \in Slots : bfut[i] \in FutDone \cup {"none"}
       \/ \E i \in Slots : bfut[i] = "exception"
    /\ pc' = [pc EXCEPT !["main"] = "idle"]
    /\ IF \E i \in Slots : bfut[i] = "exception"
       THEN /\ result' = [result EXCEPT !["main"] = "ProcError"]
            /\ returned' = <<>>
       ELSE /\ result' = [result EXCEPT !["main"] = "list"]
            /\ \E p \in DoneOrders(Cardinality({i \in Slots : bfut[i] = "result"})) :
                  returned' = [j \in 1..Len(p) |-> ProcResult(p[j])]
    /\ bfut' = [i \in Slots |-> "none"]
    /\ ncalls' = [i \in Slots |-> 0]
    /\ proc_raises' = {}
    /\ UNCHANGED <<nthreads, qmaxsize, faults, self_state, max_workers, srclen,
                   bad, jobvars, workq, raced, lastAborted>>

\* parallel.py:141-144  fut.wait(futures) returns when every future is done;
\* then [f.result() for f in rr.done]: the results in the set's order, or the
\* exception of a future that holds one.  The futures are dropped.
BReturn ==
    /\ pc["main"] = "bwait"
    /\ \A i \in Slots : bfut[i] \in FutDone \cup {"none"}
    /\ pc' = [pc EXCEPT !["main"] = "idle"]
    /\ IF \E i \in Slots : bfut[i] = "exception"
       THEN /\ result' = [result EXCEPT !["main"] = "ProcError"]
            /\ returned' = <<>>
       ELSE /\ result' = [result EXCEPT !["main"] = "list"]
            /\ \E p \in DoneOrders(Cardinality({i \in Slots : bfut[i] = "result"})) :
                  returned' = [j \in 1..Len(p) |-> ProcResult(p[j])]
    /\ bfut' = [i \in Slots |-> "none"]
    /\ ncalls' = [i \in Slots |-> 0]
    /\ proc_raises' = {}
    /\ UNCHANGED <<nthreads, qmaxsize, faults, self_state, max_workers, srclen,
                   bad, jobvars, workq, raced, lastAborted>>

\* ----------------------------------------------------------- abort()
\* abort() inverting the flag (mutation of AbortFlags)
AbortFlags_toggle(state, flags) ==
    IF state # None THEN [flags EXCEPT ![state] = ~@] ELSE flags

\* parallel.py:120-122  state = self._state; if state: state.abort = True.
\* The abort flags of the run states after abort(), from those before.
AbortFlags(state, flags) ==
    IF state # None THEN [flags EXCEPT ![state] = TRUE] ELSE flags

\* parallel.py:119-122  abort()
Abort ==
    /\ abort' = AbortFlags(self_state, abort)
    /\ UNCHANGED <<nthreads, qmaxsize, faults, bvars, self_state, pc, max_workers, srclen, bad,
                   queue, unfinished, sent, cpc, out, workq, result, raced,
                   lastAborted>>

\* ------------------------------------------------------ specification
\* The arguments a caller may give: max_workers None or 0 .. pool size + 1
MaxWorkersArgs == {<<>>} \cup {<<k>> : k \in 0..(MaxThreads + 1)}

\* The source streams to try with a worker count: _run does not look at its
\* source when it rejects the worker count (parallel.py:90-95).
SourceLens(mw, maxlen) == IF ValidWorkers(mw) THEN 0..maxlen ELSE {0}

Producer(c) ==
    \/ Check(c)
    \/ Install(c)
    \/ Submit(c)
    \/ Retry(c)
    \/ Put(c)
    \/ Blocked(c)
    \/ Join(c)
    \/ Wait(c)
    \/ Clear(c)

Worker(i) ==
    \/ CCheck(i)
    \/ CGet(i)
    \/ CNext(i)
    \/ CRaise(i)
    \/ CReturn(i)

\* The documented use: every bound callable is invoked from the main thread.
Next ==
    \/ \E mw \in MaxWorkersArgs : \E m \in SourceLens(mw, MaxItems) :
          \E b \in 0..m : Invoke("main", mw, m, b, 0, FALSE)
    \/ \E c \in Callers : Producer(c)
    \/ \E i \in Slots : Worker(i)
    \/ Abort

Spec == Init /\ [][Next]_vars

\* Two threads invoke bound callables of one pool.  What this model is for is
\* the admission of a call (the test and the assignment of self._state), which
\* does not depend on the size of the pool: the pool is the smallest that can
\* run a job, its queue is the smallest bounded one (one entry), and the calls
\* leave max_workers unspecified or ask for too few or too many workers.
InitThreads ==
    /\ Init
    /\ nthreads = MinWorkers
    /\ qmaxsize = <<1>>

ThreadsArgs == {<<>>, <<MinWorkers - 1>>, <<MinWorkers + 1>>}

NextThreads ==
    \/ \E c \in Callers, mw \in ThreadsArgs : \E m \in SourceLens(mw, RaceItems) :
          \E b \in 0..m : Invoke(c, mw, m, b, 0, FALSE)
    \/ \E c \in Callers : Producer(c)
    \/ \E i \in Slots : Worker(i)
    \/ Abort

ThreadsSpec == InitThreads /\ [][NextThreads]_vars

\* The one-caller model with fair scheduling, for the properties that say
\* something eventually happens: the queue holds one entry or is never full.
InitLive ==
    /\ Init
    /\ qmaxsize \in {<<>>, <<1>>}

NextLive ==
    \/ \E mw \in MaxWorkersArgs : \E m \in SourceLens(mw, LiveItems) :
          \E b \in 0..m : Invoke("main", mw, m, b, 0, FALSE)
    \/ \E c \in Callers : Producer(c)
    \/ \E i \in Slots : Worker(i)
    \/ Abort

\* Every thread that can take a step eventually takes one; whether a caller
\* invokes a bound callable or abort() is up to the caller.
FairSpec ==
    /\ InitLive
    /\ [][NextLive]_vars
    /\ \A c \in Callers : WF_vars(Producer(c))
    /\ \A i \in Slots : WF_vars(Worker(i))

\* The main thread's calls with a source that may raise at one of its items
\* and an on_blocked callback that may raise; the queue holds one entry or is
\* never full.
NextRaise ==
    \/ \E mw \in MaxWorkersArgs : \E m \in SourceLens(mw, RaiseItems) :
          \E b \in 0..m, k \in 0..m, cb \in BOOLEAN :
             Invoke("main", mw, m, b, k, cb)
    \/ \E mw \in MaxWorkersArgs : InvokeStale("main", mw)
    \/ \E c \in Callers : Producer(c)
    \/ \E c \in Callers : Raise(c)
    \/ \E i \in Slots : Worker(i)
    \/ Abort

RaiseSpec == InitLive /\ [][NextRaise]_vars

\* The main thread calls broadcast between its jobs; proc raises on none of
\* the slots.  The queue holds one entry or is never full.
BroadcastCall ==
    \/ Broadcast({})
    \/ \E i \in Slots : BStart(i)
    \/ \E i \in Slots : BEnd(i)
    \/ BReturn

NextBcast ==
    \/ \E mw \in MaxWorkersArgs : \E m \in SourceLens(mw, BcastItems) :
          \E b \in 0..m : Invoke("main", mw, m, b, 0, FALSE)
    \/ \E c \in Callers : Producer(c)
    \/ \E i \in Slots : Worker(i)
    \/ Abort
    \/ BroadcastCall

BcastSpec == InitLive /\ [][NextBcast]_vars

\* A pool of two slots with a queue of one entry.
InitBcast ==
    /\ Init
    /\ nthreads = MinWorkers + 1
    /\ qmaxsize = <<1>>

\* Jobs and broadcasts of the main thread on the pool of two under fair
\* scheduling: the producer thread, every worker thread (stream tasks and
\* broadcast callbacks alike) and the thread waiting in broadcast go on
\* whenever they can; whether broadcast or a job is called is up to the caller.
FairBcastSpec ==
    /\ InitBcast
    /\ [][NextBcast]_vars
    /\ \A c \in Callers : WF_vars(Producer(c))
    /\ \A i \in Slots : WF_vars(Worker(i) \/ BStart(i) \/ BEnd(i))
    /\ WF_vars(BReturn)

\* A pool of two slots, the smallest in which a job can use the whole pool
\* or less and in which a failing partition has a sibling, with fair
\* scheduling; the queue holds up to 1 .. MaxQ entries or has the default
\* capacity (never full here); a job asks for the whole pool (max_workers
\* None) or for one worker.
InitPair ==
    /\ Init
    /\ nthreads = MinWorkers + 1
    /\ qmaxsize \in {<<>>} \cup {<<k>> : k \in 1..MaxQ}

NextPair ==
    \/ \E mw \in {<<>>, <<MinWorkers>>}, m \in 0..MaxItems : \E b \in 0..m :
          Invoke("main", mw, m, b, 0, FALSE)
    \/ \E c \in Callers : Producer(c)
    \/ \E i \in Slots : Worker(i)
    \/ Abort

PairSpec ==
    /\ InitPair
    /\ [][NextPair]_vars
    /\ \A c \in Callers : WF_vars(Producer(c))
    /\ \A i \in Slots : WF_vars(Worker(i))

\* One worker and a queue of 1 .. MaxQ entries, fed by sources longer than the
\* queue and the producer's hand together can hold.
InitAhead ==
    /\ Init
    /\ nthreads = MinWorkers
    /\ qmaxsize \in {<<k>> : k \in 1..MaxQ}

NextAhead ==
    \/ \E m \in 0..(MaxQ + 2) : \E b \in 0..m :
          Invoke("main", <<>>, m, b, 0, FALSE)
    \/ \E c \in Callers : Producer(c)
    \/ \E i \in Slots : Worker(i)
    \/ Abort

AheadSpec == InitAhead /\ [][NextAhead]_vars

\* Jobs and broadcasts of the main thread on the pool of two, the broadcast
\* callback raising on any set of slots.
NextBcastRaise ==
    \/ \E mw \in {<<>>, <<MinWorkers>>}, m \in 0..BcastItems : \E b \in 0..m :
          Invoke("main", mw, m, b, 0, FALSE)
    \/ \E c \in Callers : Producer(c)
    \/ \E i \in Slots : Worker(i)
    \/ Abort
    \/ \E F \in SUBSET BroadcastTo : Broadcast(F)
    \/ \E i \in Slots : BStart(i)
    \/ \E i \in Slots : BEnd(i)
    \/ BReturn

BcastRaiseSpec ==
    /\ InitBcast
    /\ [][NextBcastRaise]_vars
    /\ \A c \in Callers : WF_vars(Producer(c))
    /\ \A i \in Slots : WF_vars(Worker(i) \/ BStart(i) \/ BEnd(i))
    /\ WF_vars(BReturn)

\* ------------------------------------------------------------ properties

\* How often item k was yielded to a stream_proc of c's job.
Yields(c, k) ==
    Cardinality({<<i, j>> \in Slots \X (1..srclen[c]) :
                    j <= Len(out[c][i]) /\ out[c][i][j] = k})

\* The consumers of c's job.
Consumers(c) == 1..Resolved(c)

\* C1: in a job with N >= 1 workers no source item is ever yielded twice and
\* nothing but a source item is yielded (never the end-of-stream marker); when
\* fut.wait has returned in a job that was not aborted, each of the M items
\* has been yielded exactly once, each of the N consumers has ended on an
\* end-of-stream marker, and all M + N entries were enqueued and taken.
C1_ExactlyOnce ==
    \A c \in Callers :
        (pc[c] \in ActivePC /\ Resolved(c) >= 1) =>
            /\ \A i \in Consumers(c) : \A j \in 1..Len(out[c][i]) :
                   out[c][i][j] \in 1..srclen[c] /\ Yields(c, out[c][i][j]) = 1
            /\ (pc[c] = "clear" /\ ~abort[c]) =>
                   /\ \A k \in 1..srclen[c] : Yields(c, k) = 1
                   /\ \A i \in Consumers(c) : cpc[c][i] = "eos"
                   /\ sent[c] = srclen[c] + Resolved(c)
                   /\ queue[c] = <<>>

\* A job of MaxItems items on two workers has returned, each worker took an item.
C1_Witness ==
    /\ pc["main"] = "clear" /\ ~abort["main"]
    /\ srclen["main"] = MaxItems /\ Resolved("main") = 2
    /\ \A i \in 1..2 : Len(out["main"][i]) >= 1

\* C2: for an empty source and N >= 1 workers: once the producer is past its
\* loop (not aborted) it has enqueued exactly N markers; no consumer ever
\* yields anything; when fut.wait has returned every consumer has ended, on a
\* marker unless the job was aborted; and the call returns unless it is aborted.
C2_EmptySource ==
    /\ [](\A c \in Callers :
            (pc[c] \in ActivePC /\ srclen[c] = 0 /\ Resolved(c) >= 1) =>
                /\ \A i \in Consumers(c) : out[c][i] = <<>>
                /\ (pc[c] \in {"join", "wait", "clear"} /\ ~abort[c]) =>
                      sent[c] = Resolved(c)
                /\ (pc[c] = "clear" /\ ~abort[c]) =>
                      \A i \in Consumers(c) : cpc[c][i] = "eos")
    /\ (pc["main"] = "submit" /\ srclen["main"] = 0 /\ Resolved("main") >= 1)
          ~> (pc["main"] = "idle" \/ abort["main"])

\* An empty-source job on two workers has returned without abort.
C2_Witness ==
    /\ pc["main"] = "clear" /\ ~abort["main"]
    /\ srclen["main"] = 0 /\ Resolved("main") = 2
    /\ \A i \in 1..2 : cpc["main"][i] = "eos"

\* The callers whose job is active: its run state exists and is not yet cleared.
ActiveJobs == {c \in Callers : pc[c] \in ActivePC}

\* A step of caller c's own thread in _run.
StepOf(c) ==
    \/ pc'[c] # pc[c]
    \/ result'[c] # result[c]
    \/ max_workers'[c] # max_workers[c]

\* C3: the step at the test of self._state, taken while a run state is set,
\* ends the call with the concurrency error and submits no task and leaves
\* self._state alone; taken while none is set it accepts the call; and the last
\* step of a job leaves no run state set, so the next invocation is accepted.
C3_ConcurrentJobRejected ==
    [][\A c \in Callers :
          /\ (pc[c] = "chk" /\ pc'[c] # "chk") =>
                IF self_state # None
                THEN /\ pc'[c] = "idle"
                     /\ result'[c] = "ValueError_concurrent"
                     /\ UNCHANGED <<workq, self_state, jobvars>>
                ELSE pc'[c] = "install" /\ result'[c] = "running"
          /\ (pc[c] = "clear" /\ pc'[c] = "idle") =>
                self_state' = None /\ result'[c] = "ok"]_vars

\* The other thread's call was refused while the main thread's job is active.
C3_Witness ==
    /\ pc["main"] \in ActivePC /\ self_state = "main"
    /\ pc["other"] = "idle" /\ result["other"] = "ValueError_concurrent"

\* C4 as stated: at most one job is active at any moment, whatever the
\* interleaving of the calling threads.
C4_AtMostOneJob == Cardinality(ActiveJobs) <= 1

\* C4 amended: as long as no call has run its test of self._state between
\* another call's test and that call's assignment of self._state, at most
\* one job is active.
C4_AtMostOneJobUnlessRaced == ~raced => Cardinality(ActiveJobs) <= 1

\* The main thread's job is active, the other thread's call is about to be
\* tested, and no two calls have overlapped between test and assignment.
C4_Witness ==
    /\ ~raced
    /\ pc["main"] \in ActivePC /\ self_state = "main"
    /\ pc["other"] = "chk"

\* C5: a call that failed with the worker-count error asked for more workers
\* than the pool has or for fewer than one; a call that got past the validation
\* asked for none (which resolves to the pool size) or for 1 .. pool size, and
\* its job has exactly that many consumers.
C5_WorkerCount ==
    \A c \in Callers :
        /\ result[c] = "ValueError_workers" =>
              /\ pc[c] = "idle"
              /\ max_workers[c] # <<>>
              /\ (max_workers[c][1] > nthreads \/ max_workers[c][1] < 1)
        /\ pc[c] # "idle" =>
              /\ result[c] = "running"
              /\ max_workers[c] = <<>> \/ max_workers[c][1] \in 1..nthreads
        /\ pc[c] \in ActivePC =>
              Cardinality({i \in Slots : cpc[c][i] # "none"}) =
                 (IF max_workers[c] = <<>> THEN nthreads ELSE max_workers[c][1])

\* A job asking for exactly the pool size (two workers) is running.
C5_Witness ==
    /\ pc["main"] = "retry"
    /\ nthreads = 2 /\ max_workers["main"] = <<2>>

\* The state of the engine: self._state, the executors' work and every run
\* state with its queue, abort flag and generators.
engine == <<self_state, workq, abort, queue, unfinished, sent, cpc, out>>

\* C6: a step that ends a call with a configuration error (worker count or
\* concurrent job) changes nothing of the engine: no task is submitted, no run
\* state is created or altered, nothing is put or pulled.
C6_ErrorLeavesEngine ==
    [][\A c \in Callers :
          (/\ StepOf(c)
           /\ pc'[c] = "idle"
           /\ result'[c] \in {"ValueError_workers", "ValueError_concurrent"})
             => UNCHANGED engine]_vars

\* The other thread's call was refused while the main thread's job, aborted
\* with an entry queued, went on.
C6_Witness ==
    /\ pc["main"] \in ActivePC /\ self_state = "main"
    /\ abort["main"] /\ queue["main"] # <<>>
    /\ pc["other"] = "idle"
    /\ result["other"] \in {"ValueError_workers", "ValueError_concurrent"}

\* C7 as stated: no job is ever created with zero consumers.
C7_NoZeroPartitions ==
    \A c \in Callers : pc[c] \in ActivePC \cup {"install"} => Resolved(c) >= 1

\* C8 as stated, for jobs with at least one worker whose stream_proc never
\* raises: once abort is set in an active job, the call returns.
C8_AbortReturns ==
    (pc["main"] \in ActivePC /\ abort["main"] /\ Resolved("main") >= 1
       /\ bad["main"] = 0)
        ~> (pc["main"] = "idle")

\* Entries taken from c's queue so far: the items yielded and the markers received.
Taken(c) ==
    Cardinality({<<i, j>> \in Slots \X (1..srclen[c]) : j <= Len(out[c][i])})
      + Cardinality({i \in Slots : cpc[c][i] = "eos"})

\* C9: after an aborted job has returned no run state is set and no task of
\* it is left in an executor; the next call is not refused; the run state it
\* installs has abort false and an empty queue; all through the new job the
\* queue holds exactly the entries its own producer has put and no consumer has
\* taken; and with at least one worker and a stream_proc that does not raise,
\* the new job returns unless it is aborted itself.
C9_ReusableAfterAbort ==
    /\ [](lastAborted =>
            /\ pc["main"] = "idle" =>
                  self_state = None /\ \A i \in Slots : workq[i] = <<>>
            /\ result["main"] # "ValueError_concurrent"
            /\ pc["main"] \in ActivePC =>
                  /\ Len(queue["main"]) + Taken("main") = sent["main"]
                  /\ \A j \in 1..Len(queue["main"]) :
                        queue["main"][j] =
                           Chain("main", sent["main"] - Len(queue["main"]) + j))
    /\ [][(lastAborted /\ pc["main"] = "install" /\ pc'["main"] = "submit") =>
             /\ abort'["main"] = FALSE
             /\ queue'["main"] = <<>>
             /\ unfinished'["main"] = 0
             /\ self_state' = "main"]_vars
    /\ (lastAborted /\ pc["main"] = "submit" /\ Resolved("main") >= 1
           /\ bad["main"] = 0)
          ~> (pc["main"] = "idle" \/ abort["main"])

\* After an aborted job, a job of LiveItems items has run to its end unaborted.
C9_Witness ==
    /\ lastAborted
    /\ pc["main"] = "clear" /\ ~abort["main"]
    /\ srclen["main"] = LiveItems /\ Resolved("main") >= 1
    /\ \A k \in 1..LiveItems : Yields("main", k) = 1

\* C10 as stated: once a stream_proc of the main thread's job has raised, the call ends by
\* raising that failure.
C10_FailureRaised ==
    (\E i \in Slots : cpc["main"][i] = "raised")
        ~> (pc["main"] = "idle" /\ result["main"] = "StreamProcError")

\* The consumers of c's job whose stream_proc has raised, and their siblings.
Failed(c) == {i \in Consumers(c) : cpc[c][i] = "raised"}

Siblings(c) == Consumers(c) \ Failed(c)

\* Item k was yielded to consumer i of c's job and stream_proc has handled it.
Handled(c, i, k) ==
    \E j \in 1..Len(out[c][i]) :
        /\ out[c][i][j] = k
        /\ j < Len(out[c][i]) \/ cpc[c][i] # "proc"

\* C11: in a job of N >= 2 workers in which a stream_proc has raised: the
\* failed item was yielded once only and is not back in the queue; unless the
\* caller aborts, no sibling's sequence is ended by the abort flag; once every
\* sibling has ended on its marker (no abort), the producer has enqueued the
\* whole source and every item the failed partition did not take was handled
\* by a sibling; and every sibling does get to its marker and its task ends,
\* unless the caller aborts.
C11_SiblingsRunOn ==
    /\ [](\A c \in Callers :
            (pc[c] \in ActivePC /\ Resolved(c) >= 2 /\ Failed(c) # {}) =>
                /\ Yields(c, bad[c]) = 1
                /\ \A j \in 1..Len(queue[c]) : queue[c][j] # bad[c]
                /\ ~abort[c] => \A i \in Siblings(c) : cpc[c][i] # "aborted"
                /\ (~abort[c] /\ \A i \in Siblings(c) : cpc[c][i] = "eos") =>
                      /\ sent[c] >= srclen[c]
                      /\ \A k \in 1..srclen[c] :
                            \/ \E f \in Failed(c) : \E j \in 1..Len(out[c][f]) :
                                   out[c][f][j] = k
                            \/ \E i \in Siblings(c) : Handled(c, i, k))
    /\ (pc["main"] \in ActivePC /\ Resolved("main") >= 2 /\ Failed("main") # {})
          ~> (\/ abort["main"]
              \/ \A i \in Siblings("main") :
                    cpc["main"][i] = "eos" /\ TaskDone("main", i))

\* stream_proc raised on the first of MaxItems items; the sibling handled
\* the rest, received its marker and its task has ended; no abort.
C11_Witness ==
    /\ pc["main"] \in ActivePC /\ ~abort["main"]
    /\ srclen["main"] = MaxItems /\ bad["main"] = 1
    /\ \E f \in Consumers("main") :
          /\ Failed("main") = {f}
          /\ out["main"][f] = <<1>>
          /\ \A i \in Siblings("main") :
                /\ cpc["main"][i] = "eos" /\ TaskDone("main", i)
                /\ \A k \in 2..MaxItems : Handled("main", i, k)

\* C12 as stated: once a stream_proc of the main thread's job has raised, the
\* invocation ends with the run state cleared and no task of the job left in
\* an executor, so that the pool can take the next job.
C12_ReusableAfterFailure ==
    (pc["main"] \in ActivePC /\ Failed("main") # {})
        ~> (/\ pc["main"] = "idle"
            /\ self_state = None
            /\ \A i \in Slots : workq[i] = <<>>)

\* C13 as stated: whenever no invocation of a bound callable is in progress,
\* the run state is None.
C13_NoStaleRunState ==
    (\A c \in Callers : pc[c] = "idle") => self_state = None

\* C14: when fut.wait has returned, which is when the bound callable is about
\* to return, no task of the job is left in any executor, every consumer's
\* generator has ended or its task has raised, and if the job was not aborted
\* every item of the source was yielded to a stream_proc that has since asked
\* for its next one.
C14_Synchronous ==
    \A c \in Callers :
        pc[c] = "clear" =>
            /\ \A i \in Slots : \A j \in 1..Len(workq[i]) : workq[i][j] # c
            /\ \A i \in Consumers(c) : cpc[c][i] \in Settled
            /\ ~abort[c] =>
                  \A k \in 1..srclen[c] : \E i \in Consumers(c) : Handled(c, i, k)

\* A job of MaxItems items on one worker of the pool of two is about to
\* return, not aborted: the one stream_proc has handled them all, in order.
C14_Witness ==
    /\ pc["main"] = "clear" /\ ~abort["main"]
    /\ nthreads > 1 /\ max_workers["main"] = <<1>>
    /\ srclen["main"] = MaxItems
    /\ Len(out["main"][1]) = MaxItems
    /\ \A k \in 1..MaxItems : Handled("main", 1, k)

\* C15: a broadcast never calls proc twice on a slot nor on a slot the pool
\* does not have; the step on which broadcast returns is taken only when proc
\* has been called exactly once on each of the N slots of the pool, every one
\* of the N futures is done and no broadcast task is left in an executor, and
\* the list it returns has exactly N elements.
C15_BroadcastAllSlots ==
    /\ [](\A i \in Slots :
            /\ ncalls[i] <= 1
            /\ i > nthreads => ncalls[i] = 0 /\ bfut[i] = "none")
    /\ [][(pc["main"] = "bwait" /\ pc'["main"] = "idle") =>
             /\ \A i \in 1..nthreads : ncalls[i] = 1 /\ bfut[i] \in FutDone
             /\ \A i \in Slots : \A j \in 1..Len(workq[i]) : workq[i][j] # BTask
             /\ result'["main"] = "list"
             /\ Len(returned') = nthreads]_vars

\* After a job that was aborted, a broadcast on the pool of two slots has
\* returned a list of two results.
C15_Witness ==
    /\ nthreads = 2 /\ lastAborted
    /\ pc["main"] = "idle" /\ result["main"] = "list"
    /\ Len(returned) = 2

\* C16 as stated: element i of the list broadcast returns is the result of
\* the call of proc on worker slot i.
C16_SlotOrder ==
    result["main"] = "list" =>
        \A i \in 1..Len(returned) : returned[i] = ProcResult(i)

\* Everything but the abort flags.
but_abort == <<nthreads, qmaxsize, self_state, pc, max_workers, srclen, bad,
               src_raises, on_blocked_raises, queue, unfinished, sent, cpc,
               out, workq, result, raced, lastAborted, bvars>>

\* C17: in every state, abort() leaves the flags as they are when no run
\* state is set, and otherwise sets the flag of the current run state and no
\* other; abort() twice gives what abort() once gives; a step that changes
\* the flag of a job that goes on changes it from false to true, changes the
\* flag of the current run state and changes nothing else; and while a job
\* goes on its flag, once true, stays true.
C17_AbortFlag ==
    /\ [](/\ self_state = None => AbortFlags(self_state, abort) = abort
          /\ self_state # None =>
                /\ AbortFlags(self_state, abort)[self_state] = TRUE
                /\ \A c \in Callers \ {self_state} :
                      AbortFlags(self_state, abort)[c] = abort[c]
          /\ AbortFlags(self_state, AbortFlags(self_state, abort))
                = AbortFlags(self_state, abort))
    /\ [][\A c \in Callers :
             (pc[c] \in ActivePC /\ pc'[c] \in ActivePC) =>
                 /\ abort[c] => abort'[c]
                 /\ abort'[c] # abort[c] =>
                       /\ self_state = c
                       /\ abort' = [abort EXCEPT ![c] = TRUE]
                       /\ UNCHANGED but_abort]_vars

\* abort() was called while the producer was about to enqueue and a consumer
\* about to dequeue.
C17_Witness ==
    /\ self_state = "main" /\ abort["main"]
    /\ pc["main"] = "put"
    /\ cpc["main"][1] = "get"

\* Every entry of c's job is enqueued, received and acknowledged: the queue is
\* empty with no entry unacknowledged, each item of the source was handled by
\* a stream_proc and each consumer has received a marker.
AllAcknowledged(c) ==
    /\ unfinished[c] = 0
    /\ queue[c] = <<>>
    /\ sent[c] = srclen[c] + Resolved(c)
    /\ \A k \in 1..srclen[c] : \E i \in Consumers(c) : Handled(c, i, k)
    /\ \A i \in Consumers(c) : cpc[c][i] = "eos"

\* C18: the step on which run returns from q.join() is taken only when every
\* entry is acknowledged, and in a job that is not aborted run has returned
\* only so: whenever _run is past state.run with abort not set, every entry
\* is acknowledged.
C18_RunReturnsDrained ==
    /\ [](\A c \in Callers :
            (pc[c] \in {"wait", "clear"} /\ ~abort[c]) => AllAcknowledged(c))
    /\ [][\A c \in Callers :
             (pc[c] = "join" /\ pc'[c] # "join") =>
                 pc'[c] = "wait" /\ AllAcknowledged(c)]_vars

\* run has returned from q.join() in a job of MaxItems items on two workers,
\* not aborted, while a stream_proc has yet to return.
C18_Witness ==
    /\ pc["main"] = "wait" /\ ~abort["main"]
    /\ srclen["main"] = MaxItems /\ Resolved("main") = 2
    /\ unfinished["main"] = 0
    /\ \E i \in Consumers("main") : ~TaskDone("main", i)

\* The markers c's producer has enqueued: those queued and those received.
MarkersQueued(c) ==
    Cardinality({j \in 1..Len(queue[c]) : queue[c][j] = EOS_MARKER})

MarkersEnqueued(c) ==
    MarkersQueued(c) + Cardinality({i \in Slots : cpc[c][i] = "eos"})

\* The source items c's producer has enqueued: those queued and those yielded.
ItemsEnqueued(c) ==
    (Len(queue[c]) - MarkersQueued(c))
      + Cardinality({k \in 1..srclen[c] : Yields(c, k) > 0})

\* C19: all through a job the producer has enqueued no more markers than the
\* job has workers (the resolved count); once a marker is enqueued, all items
\* of the source are, so a marker is never received while an item is still
\* to be enqueued; in the queue no item stands behind a marker; and once the
\* producer is past its loop, and whenever run has returned in a job that is
\* not aborted, exactly as many markers as the job has workers are enqueued.
C19_MarkersLast ==
    \A c \in Callers :
        pc[c] \in ActivePC =>
            /\ sent[c] = ItemsEnqueued(c) + MarkersEnqueued(c)
            /\ MarkersEnqueued(c) <=
                  (IF max_workers[c] = <<>> THEN nthreads ELSE max_workers[c][1])
            /\ MarkersEnqueued(c) > 0 => ItemsEnqueued(c) = srclen[c]
            /\ \A i, j \in 1..Len(queue[c]) :
                  (i < j /\ queue[c][i] = EOS_MARKER) => queue[c][j] = EOS_MARKER
            /\ (pc[c] = "join" \/ (pc[c] \in {"wait", "clear"} /\ ~abort[c])) =>
                  MarkersEnqueued(c) =
                     (IF max_workers[c] = <<>> THEN nthreads ELSE max_workers[c][1])

\* A job asking for one worker of a pool of two has enqueued its MaxItems
\* items and then its one marker, which is still queued.
C19_Witness ==
    /\ pc["main"] = "join" /\ ~abort["main"]
    /\ nthreads = 2 /\ max_workers["main"] = <<1>>
    /\ srclen["main"] = MaxItems
    /\ MarkersQueued("main") = 1

\* C20: a step of a consumer of a job ends its sequence on a marker only by
\* taking the marker off the queue, and on abort only with the abort flag
\* set; a dequeue that finds the queue empty takes it back to the loop test,
\* from where, abort not set, it dequeues again; and a dequeue that finds a
\* source item, the one that compares equal to the marker too, yields that
\* item and does not end the sequence.
C20_SequenceEnds ==
    [][\A c \in Callers : \A i \in Slots :
          (pc[c] \in ActivePC /\ cpc'[c][i] # cpc[c][i]) =>
              /\ cpc'[c][i] = "eos" =>
                    /\ cpc[c][i] = "get" /\ queue[c] # <<>>
                    /\ Head(queue[c]) = EOS_MARKER
                    /\ queue'[c] = Tail(queue[c])
              /\ cpc'[c][i] = "aborted" => cpc[c][i] = "check" /\ abort[c]
              /\ (cpc[c][i] = "get" /\ queue[c] = <<>>) =>
                    cpc'[c][i] = "check" /\ out'[c][i] = out[c][i]
              /\ (cpc[c][i] = "check" /\ ~abort[c]) => cpc'[c][i] = "get"
              /\ (cpc[c][i] = "get" /\ queue[c] # <<>>
                     /\ Head(queue[c]) \in 1..srclen[c]) =>
                    /\ cpc'[c][i] = "proc"
                    /\ out'[c][i] = Append(out[c][i], Head(queue[c]))]_vars

\* A consumer that was yielded the item that compares equal to the marker
\* went on and is dequeuing from the empty queue, with more of the source to
\* come and abort not set.
C20_Witness ==
    /\ pc["main"] \in ActivePC /\ ~abort["main"]
    /\ srclen["main"] = MaxItems /\ sent["main"] = 1
    /\ \E i \in Consumers("main") :
          /\ cpc["main"][i] = "get"
          /\ out["main"][i] = <<1>> /\ 1 \in EqualsAny
    /\ queue["main"] = <<>>

\* The entries waiting in c's queue are the last Len(queue) entries the
\* producer has enqueued, in the order of the chained source.
QueueInOrder(c) ==
    /\ Len(queue[c]) <= sent[c]
    /\ \A j \in 1..Len(queue[c]) :
          queue[c][j] = Chain(c, sent[c] - Len(queue[c]) + j)

\* C21: in every reachable state of a job the queued entries stand in the
\* order in which the producer enqueued them, the entry a consumer takes is
\* the oldest one, and the items each consumer has been yielded are in
\* strictly increasing source position, whatever consumer took which item.
C21_SourceOrder ==
    /\ [](\A c \in ActiveJobs :
            /\ QueueInOrder(c)
            /\ \A i \in Consumers(c) : \A j \in 1..Len(out[c][i]) :
                  \A l \in 1..Len(out[c][i]) :
                     j < l => out[c][i][j] < out[c][i][l])
    /\ [][\A c \in Callers : \A i \in Slots :
            (c \in ActiveJobs /\ Len(out'[c][i]) > Len(out[c][i])) =>
                /\ queue[c] # <<>>
                /\ out'[c][i] = Append(out[c][i], Head(queue[c]))
                /\ queue'[c] = Tail(queue[c])]_vars

\* On two workers, the second consumer was yielded the last two items of the
\* source, in that order, while the first consumer polls for input.
C21_Witness ==
    /\ pc["main"] \in ActivePC /\ Resolved("main") = 2
    /\ Len(out["main"][2]) = 2
    /\ out["main"][2][2] = MaxItems
    /\ cpc["main"][1] = "get"

\* C22: under fair scheduling, a job of the main thread whose stream_proc
\* raises on no item reaches, unless it is aborted, the point where fut.wait
\* has returned with every source item yielded to some consumer, every
\* consumer ended on its end-of-stream marker and the queue empty, and from
\* there the call returns; for one and two consumers and for every queue
\* capacity 1 .. MaxQ and the default.
C22_Liveness ==
    /\ (pc["main"] = "submit" /\ bad["main"] = 0)
          ~> \/ abort["main"]
             \/ /\ pc["main"] = "clear"
                /\ \A k \in 1..srclen["main"] : Yields("main", k) = 1
                /\ \A i \in Consumers("main") : cpc["main"][i] = "eos"
                /\ queue["main"] = <<>>
    /\ (pc["main"] = "clear") ~> (pc["main"] = "idle")

\* A job of MaxItems items on two consumers over a queue of one entry, whose
\* stream_proc raises on nothing, has returned without abort.
C22_Witness ==
    /\ pc["main"] = "clear" /\ ~abort["main"] /\ bad["main"] = 0
    /\ qmaxsize = <<1>>
    /\ srclen["main"] = MaxItems /\ Resolved("main") = 2
    /\ \A i \in 1..2 : cpc["main"][i] = "eos"

\* C23: the queue of a job never holds more entries (items and markers) than
\* its capacity, for every capacity 1 .. MaxQ and for the default; and a step
\* that adds an entry adds exactly one, to a queue holding fewer entries than
\* the capacity.
C23_Backpressure ==
    /\ [](\A c \in ActiveJobs : QMax >= 1 /\ Len(queue[c]) <= QMax)
    /\ [][\A c \in Callers :
            (c \in ActiveJobs /\ Len(queue'[c]) > Len(queue[c])) =>
                /\ Len(queue[c]) < QMax
                /\ Len(queue'[c]) = Len(queue[c]) + 1
                /\ pc[c] = "put"]_vars

\* The producer found the queue of capacity MaxQ full and is in on_blocked.
C23_Witness ==
    /\ pc["main"] = "blocked"
    /\ qmaxsize = <<MaxQ>>
    /\ Len(queue["main"]) = MaxQ

\* C24: the producer enters on_blocked only from an enqueue attempt that found
\* the queue full, and every such attempt enters it; the attempt and the
\* callback leave the queue and the count of enqueued entries alone; after the
\* callback the producer is back at its loop test, from where it makes a new
\* attempt for the same entry if abort is not set, and otherwise goes on to
\* fut.wait without enqueuing and without q.join(); an attempt that finds room
\* enqueues exactly the next entry of the chained source.
C24_OnBlocked ==
    [][\A c \in Callers :
          /\ (pc'[c] = "blocked" /\ pc[c] # "blocked") =>
                pc[c] = "put" /\ Full(c)
          /\ (pc[c] = "put" /\ pc'[c] # "put") =>
                IF Full(c)
                THEN /\ pc'[c] = "blocked"
                     /\ queue'[c] = queue[c] /\ sent'[c] = sent[c]
                ELSE /\ queue'[c] = Append(queue[c], Chain(c, sent[c] + 1))
                     /\ sent'[c] = sent[c] + 1
          /\ (pc[c] = "blocked" /\ pc'[c] # "blocked") =>
                /\ pc'[c] = "retry"
                /\ queue'[c] = queue[c] /\ sent'[c] = sent[c]
          /\ (pc[c] = "retry" /\ pc'[c] # "retry") =>
                /\ queue'[c] = queue[c] /\ sent'[c] = sent[c]
                /\ pc'[c] = (IF abort[c] THEN "wait" ELSE "put")]_vars

\* Abort was signalled while the producer, which found the queue of one entry
\* full, is in on_blocked.
C24_Witness ==
    /\ pc["main"] = "blocked" /\ abort["main"]
    /\ qmaxsize = <<1>> /\ Len(queue["main"]) = 1
    /\ sent["main"] < ChainLen("main")

\* C25: while the abort flag of a job is set, the producer does not get to a
\* new enqueue attempt and no consumer gets to a new dequeue attempt; an entry
\* is enqueued only by an attempt that was already under way, which ends with
\* it, and an item is yielded only by a dequeue attempt already under way,
\* which ends with it, so at most one further entry is enqueued and each
\* consumer yields at most one further item; setting the flag changes nothing
\* else, and a stream_proc handling an item ends that item as it would have
\* without abort.
C25_AbortStopsNewWork ==
    [][\A c \in Callers :
          /\ (abort[c] /\ c \in ActiveJobs) =>
                /\ pc'[c] = "put" => pc[c] = "put"
                /\ Len(queue'[c]) > Len(queue[c]) =>
                      /\ pc[c] = "put" /\ pc'[c] # "put"
                      /\ sent'[c] = sent[c] + 1
                /\ \A i \in Slots :
                      /\ cpc'[c][i] = "get" => cpc[c][i] = "get"
                      /\ Len(out'[c][i]) > Len(out[c][i]) =>
                            /\ cpc[c][i] = "get" /\ cpc'[c][i] = "proc"
                            /\ Len(out'[c][i]) = Len(out[c][i]) + 1
                      /\ (cpc[c][i] = "proc" /\ cpc'[c][i] # "proc") =>
                            /\ out'[c][i] = out[c][i]
                            /\ cpc'[c][i] =
                                  (IF Current(c, i) = bad[c] THEN "raised"
                                                             ELSE "check")
          /\ abort'[c] # abort[c] =>
                UNCHANGED <<pc, queue, unfinished, sent, cpc, out, workq>>
                   \/ (pc[c] = "clear" /\ pc'[c] = "idle")]_vars

\* The producer has returned on abort before the end of its stream while a
\* stream_proc is still handling an item.
C25_Witness ==
    /\ abort["main"] /\ pc["main"] = "wait"
    /\ sent["main"] < ChainLen("main")
    /\ \E i \in Slots : cpc["main"][i] = "proc"

\* The number of tasks of c's job that slot i holds, running or waiting.
Tasks(c, i) == Cardinality({j \in 1..Len(workq[i]) : workq[i][j] = c})

\* C26: the submitting step of a job with resolved worker count k appends one
\* task of the job to each of the slots 1 .. k and leaves the other slots
\* alone, and no other step gives a slot a task; the job has k consumer
\* sequences, the one of slot i driven by the task on slot i only; a slot
\* holds at most one task of the job, and a slot above k holds none, has no
\* consumer sequence and stays idle as long as the job is active.
C26_OneTaskPerWorker ==
    /\ [](\A c \in ActiveJobs : \A i \in Slots :
            IF i \in Consumers(c)
            THEN /\ cpc[c][i] # "none"
                 /\ Tasks(c, i) <= 1
                 /\ Tasks(c, i) = 0 => (pc[c] = "submit" \/ cpc[c][i] \in Settled)
                 /\ pc[c] = "submit" =>
                       Tasks(c, i) = 0 /\ cpc[c][i] = "check" /\ out[c][i] = <<>>
            ELSE /\ cpc[c][i] = "none" /\ out[c][i] = <<>>
                 /\ workq[i] = <<>>)
    /\ [][\A c \in Callers :
            /\ (pc[c] = "submit" /\ pc'[c] # "submit") =>
                  \A i \in Slots :
                     workq'[i] = (IF i \in 1..Resolved(c)
                                  THEN Append(workq[i], c) ELSE workq[i])
            /\ (\E i \in Slots : Tasks(c, i)' > Tasks(c, i)) => pc[c] = "submit"]_vars

\* A job bound to one worker on the pool of two is enqueuing: slot 1 runs its
\* task, which polls for input, and slot 2 has nothing.
C26_Witness ==
    /\ pc["main"] = "put" /\ max_workers["main"] = <<1>> /\ nthreads = 2
    /\ workq[1] = <<"main">> /\ workq[2] = <<>>
    /\ cpc["main"][1] = "get"

\* C27: the slots are those of the constructor, for ever; the work of a slot
\* changes only by a task joining it at the end or its oldest task leaving it,
\* finished; only the oldest task of a slot runs: a step that advances the
\* consumer of a job's task, or a broadcast callback, is a step of the task at
\* the head of its slot, and a task behind the head has not begun.
C27_SlotIsSerial ==
    /\ [](/\ DOMAIN workq = Slots
          /\ \A i \in Slots :
                /\ i > nthreads => workq[i] = <<>>
                /\ bfut[i] = "running" => (workq[i] # <<>> /\ Head(workq[i]) = BTask)
                /\ \A j \in 2..Len(workq[i]) :
                      /\ workq[i][j] \in Callers =>
                            /\ cpc[workq[i][j]][i] = "check"
                            /\ out[workq[i][j]][i] = <<>>
                      /\ workq[i][j] = BTask => bfut[i] = "pending")
    /\ [][/\ nthreads' = nthreads
          /\ \A i \in Slots :
                /\ workq'[i] # workq[i] =>
                      \/ \E t \in Callers \cup {BTask} : workq'[i] = Append(workq[i], t)
                      \/ /\ workq[i] # <<>> /\ workq'[i] = Tail(workq[i])
                         /\ Head(workq[i]) \in Callers =>
                               cpc'[Head(workq[i])][i] \in Settled
                         /\ Head(workq[i]) = BTask => bfut'[i] \in FutDone
                /\ \A c \in Callers :
                      (/\ pc[c] \in ActivePC \ {"clear"}
                       /\ <<cpc'[c][i], out'[c][i]>> # <<cpc[c][i], out[c][i]>>) =>
                          workq[i] # <<>> /\ Head(workq[i]) = c]_vars

\* Two jobs have each handed a task to the one slot: the task of the main
\* thread's job is handling an item, the other thread's task waits behind it.
C27_Witness ==
    /\ workq[1] = <<"main", "other">>
    /\ cpc["main"][1] = "proc"
    /\ cpc["other"][1] = "check" /\ pc["other"] = "put"

\* Item k of the main thread's job waits in the queue.
Queued(k) == \E j \in 1..Len(queue["main"]) : queue["main"][j] = k

\* Consumer i of the main thread's job is idle: at its loop test or polling.
Idle(i) == i \in Consumers("main") /\ cpc["main"][i] \in {"check", "get"}

\* C28 as stated: in a job that is not aborted, whenever the queue holds an
\* item and some consumer is idle, the item is eventually taken by a consumer.
C28_IdleTakes ==
    \A k \in 1..MaxItems :
        (/\ pc["main"] \in ActivePC /\ ~abort["main"]
         /\ Queued(k) /\ \E i \in Slots : Idle(i))
           ~> (Yields("main", k) = 1 \/ abort["main"])

\* C28 amended: a consumer that polls a queue that is not empty takes its
\* oldest entry, whichever consumer it is; and in a job that is not aborted,
\* whenever the queue holds an item and some consumer is idle, the item is
\* eventually taken by a consumer, unless every consumer of the job has ended
\* (as it does when its stream_proc raises).
C28_IdleTakesWhileAnyLeft ==
    /\ [][\A i \in Slots :
            (/\ pc["main"] \in ActivePC /\ i \in Consumers("main")
             /\ cpc["main"][i] = "get" /\ cpc'["main"][i] # "get"
             /\ queue["main"] # <<>>) =>
                /\ queue'["main"] = Tail(queue["main"])
                /\ ~IsEOS(Head(queue["main"])) =>
                      out'["main"][i] = Append(out["main"][i], Head(queue["main"]))]_vars
    /\ \A k \in 1..MaxItems :
          (/\ pc["main"] \in ActivePC /\ ~abort["main"]
           /\ Queued(k) /\ \E i \in Slots : Idle(i))
             ~> \/ Yields("main", k) = 1
                \/ abort["main"]
                \/ \A i \in Consumers("main") : cpc["main"][i] \in Settled

\* The last item waits in the queue while the first consumer is handling an
\* item and the second one polls for input; the job is not aborted.
C28_Witness ==
    /\ pc["main"] \in ActivePC /\ ~abort["main"] /\ Resolved("main") = 2
    /\ Queued(MaxItems)
    /\ cpc["main"][1] = "proc" /\ cpc["main"][2] = "get"

\* C29: a broadcast of the main thread, called when no job of that thread is
\* running, finds no run state and every slot free of stream tasks, so that
\* nothing stands before its callbacks; no step from its call to its return
\* touches self._state or any run state; under fair scheduling, with proc
\* returning on every worker, it returns its list; and no call of the bound
\* callable by the main thread, after a broadcast or not, is refused as a
\* concurrent job.
C29_BroadcastAlone ==
    /\ [](/\ pc["main"] = "bwait" =>
                /\ self_state = None
                /\ ActiveJobs = {}
                /\ \A i \in Slots : workq[i] \in {<<>>, <<BTask>>}
          /\ result["main"] # "ValueError_concurrent")
    /\ [][(pc["main"] = "bwait" \/ pc'["main"] = "bwait") =>
             UNCHANGED <<self_state, jobvars>>]_vars
    /\ (pc["main"] = "bwait") ~> (pc["main"] = "idle" /\ result["main"] = "list")

\* A broadcast called after a job that was aborted has returned: every slot of
\* the pool of two has run the callback and no run state exists.
C29_Witness ==
    /\ lastAborted /\ nthreads = 2
    /\ pc["main"] = "bwait"
    /\ \A i \in 1..2 : bfut[i] = "result"

\* The number of entries consumers have taken from c's queue.
Dequeued(c) == sent[c] - Len(queue[c])

\* C30: in every state of a job, aborted or not: the producer has enqueued
\* the first sent entries of the stream, which are the source items 1, 2, ...
\* in order and markers only after all srclen items; the entries still queued
\* are the last of these; every item yielded is one of those taken from the
\* queue and is yielded once, and a queued item has been yielded to nobody;
\* and when the call returns, on abort or not, it returns normally whatever
\* is left in the queue or was pulled and not enqueued: nothing more is
\* yielded and the caller is told nothing.
C30_PrefixAndDrop ==
    /\ [](\A c \in ActiveJobs :
            /\ sent[c] <= srclen[c] + Resolved(c)
            /\ Len(queue[c]) <= sent[c]
            /\ \A j \in 1..Len(queue[c]) :
                  queue[c][j] = (IF Dequeued(c) + j <= srclen[c]
                                 THEN Dequeued(c) + j ELSE EOS_MARKER)
            /\ \A i \in Consumers(c) : \A j \in 1..Len(out[c][i]) :
                  /\ out[c][i][j] \in 1..srclen[c]
                  /\ out[c][i][j] <= Dequeued(c)
                  /\ Yields(c, out[c][i][j]) = 1
            /\ \A k \in 1..srclen[c] : k <= Dequeued(c) => Yields(c, k) = 1
            /\ pc[c] = "clear" =>
                  \/ abort[c]
                  \/ queue[c] = <<>> /\ sent[c] = srclen[c] + Resolved(c))
    /\ [][\A c \in Callers :
            (pc[c] = "clear" /\ pc'[c] # "clear") =>
                /\ pc'[c] = "idle" /\ result'[c] = "ok"
                /\ \A i \in Slots : out'[c][i] = <<>>
                /\ queue'[c] = <<>>]_vars

\* An aborted job is about to return: an item is left in its queue, yielded
\* to nobody, and the producer stopped before the end of the source.
C30_Witness ==
    /\ pc["main"] = "clear" /\ abort["main"]
    /\ queue["main"] # <<>> /\ Head(queue["main"]) \in 1..srclen["main"]
    /\ sent["main"] < srclen["main"]

\* The producer of c's job holds an entry it has pulled from the chained
\* stream and not enqueued: it is between the pull and the end of the put, or
\* it returned on abort with the entry in hand.
InHand(c) ==
    \/ pc[c] \in {"retry", "put", "blocked"}
    \/ pc[c] \in {"wait", "clear"} /\ sent[c] < ChainLen(c)

\* The source items c's producer has pulled from the source so far.
Pulled(c) ==
    LET n == sent[c] + (IF InHand(c) THEN 1 ELSE 0)
    IN  IF n <= srclen[c] THEN n ELSE srclen[c]

\* The source items yielded to the consumers of c's job so far.
Yielded(c) == Cardinality({k \in 1..srclen[c] : Yields(c, k) > 0})

\* C31: at any time in a job the items pulled from the source and not yet
\* yielded to a consumer are at most the queue capacity plus one; the source
\* is pulled one item at a time, by steps of the calling thread only.
C31_ReadAhead ==
    /\ [](\A c \in ActiveJobs : Pulled(c) - Yielded(c) <= QMax + 1)
    /\ [][\A c \in Callers :
            (c \in ActiveJobs /\ pc'[c] \in ActivePC /\ Pulled(c)' # Pulled(c)) =>
                /\ Pulled(c)' = Pulled(c) + 1
                /\ pc'[c] # pc[c]
                /\ pc[c] \in {"submit", "put"}]_vars

\* With a queue of MaxQ entries full of items and a further item in the
\* producer's hand, nothing yielded yet.
C31_Witness ==
    /\ pc["main"] = "blocked" /\ qmaxsize = <<MaxQ>>
    /\ Yielded("main") = 0
    /\ Pulled("main") = MaxQ + 1 /\ Pulled("main") < srclen["main"]

\* The consumers of c's job that hold an item their stream_proc has not asked
\* to replace: it is handling the item, or it stopped for good while handling it.
Holding(c) == {i \in Consumers(c) : cpc[c][i] \in {"proc", "raised"}}

\* C32: the entries not acknowledged to the queue are those waiting in it and
\* those a stream_proc was yielded and has not followed by a request for the
\* next; an acknowledgement is made only by a consumer resumed for the next
\* item or receiving its marker; run leaves q.join() only with nothing
\* unacknowledged; hence, while a stream_proc of a job has stopped before its
\* marker and abort is not set, run has not returned, and no step returns
\* from run or from the bound callable.
C32_StoppedConsumerHangs ==
    /\ [](\A c \in ActiveJobs :
            /\ unfinished[c] = Len(queue[c]) + Cardinality(Holding(c))
            /\ (Failed(c) # {} /\ ~abort[c]) => pc[c] \notin {"wait", "clear"})
    /\ [][\A c \in Callers :
            /\ (pc[c] \in ActivePC /\ pc'[c] \in ActivePC
                /\ unfinished'[c] < unfinished[c]) =>
                  /\ unfinished'[c] = unfinished[c] - 1
                  /\ \E i \in Consumers(c) :
                        \/ cpc[c][i] = "proc" /\ cpc'[c][i] = "check"
                        \/ cpc[c][i] = "get" /\ cpc'[c][i] = "eos"
            /\ (pc[c] = "join" /\ pc'[c] # "join") => unfinished[c] = 0
            /\ (pc[c] \in ActivePC /\ Failed(c) # {} /\ ~abort[c] /\ ~abort'[c]) =>
                  pc'[c] \notin {"wait", "clear", "idle"}]_vars

\* The stream_proc of one of two consumers has raised and abort is not set:
\* the other consumer has ended on its marker, and run waits in q.join() for
\* two entries that will not be acknowledged, the item of the failed
\* stream_proc and the marker nobody is left to take.
C32_Witness ==
    /\ pc["main"] = "join" /\ ~abort["main"]
    /\ Resolved("main") = 2 /\ Cardinality(Failed("main")) = 1
    /\ \A i \in Siblings("main") : cpc["main"][i] = "eos"
    /\ queue["main"] = <<EOS_MARKER>> /\ unfinished["main"] = 2

\* C33: the step on which broadcast comes back to its caller is taken only
\* when proc has been called on every slot of the pool and has returned or
\* raised on each; if proc raised on some slot the call then ends with that
\* failure and returns no list, otherwise it returns a list of as many results
\* as the pool has slots; a list it has returned is never shorter; and under
\* fair scheduling a broadcast comes back, with the failure if proc raises on
\* some slot.
C33_BroadcastFailure ==
    /\ [](result["main"] = "list" => Len(returned) = nthreads)
    /\ [][(pc["main"] = "bwait" /\ pc'["main"] # "bwait") =>
             /\ \A i \in 1..nthreads : ncalls[i] = 1 /\ bfut[i] \in FutDone
             /\ \A i \in 1..nthreads :
                   bfut[i] = (IF i \in proc_raises THEN "exception" ELSE "result")
             /\ \A i \in Slots : \A j \in 1..Len(workq[i]) : workq[i][j] # BTask
             /\ IF proc_raises \cap (1..nthreads) # {}
                THEN result'["main"] = "ProcError" /\ returned' = <<>>
                ELSE result'["main"] = "list" /\ Len(returned') = nthreads]_vars
    /\ (pc["main"] = "bwait" /\ proc_raises # {})
          ~> (pc["main"] = "idle" /\ result["main"] = "ProcError")

\* proc has raised on the first slot while it is still running on the second,
\* and broadcast waits.
C33_Witness ==
    /\ pc["main"] = "bwait" /\ nthreads = 2
    /\ bfut[1] = "exception" /\ bfut[2] = "running"

====
